---- MODULE Spec2Model ----
(***************************************************************************)
(* The value model of faunadb-rust (src/expr.rs): the Expr tagged union,   *)
(* its constructing conversions, and its Serialize implementation driven   *)
(* against the compact JSON text serializer of serde_json.                 *)
(*                                                                         *)
(* JSON text is kept as a sequence of tokens (each token a string); Render *)
(* concatenates the tokens into the text the writer receives.              *)
(***************************************************************************)
EXTENDS Integers, Sequences, FiniteSets, TLC

VARIABLES object, vec, expr, res, value, conv, hist

vars == <<object, vec, expr, res, value, conv, hist>>

(***************************************************************************)
(* Bounds of the model.                                                    *)
(***************************************************************************)
\* Total number of Expr nodes held by object, vec and expr together.
MaxNodes == 3
\* The sink operation that fails is drawn from 0..MaxFail (0: none fails).
MaxFail == 6

(***************************************************************************)
(* 64-bit integers.  A u64 is four 16-bit limbs, most significant first;   *)
(* an i64 is a sign and a magnitude.                                       *)
(***************************************************************************)
LimbBase == 2^16

U64(n) == <<0, 0, n \div LimbBase, n % LimbBase>>

I64Max == <<LimbBase \div 2 - 1, LimbBase - 1, LimbBase - 1, LimbBase - 1>>

I64MaxPlus1 == <<LimbBase \div 2, 0, 0, 0>>

U64Max == <<LimbBase - 1, LimbBase - 1, LimbBase - 1, LimbBase - 1>>

IsZero(m) == m = <<0, 0, 0, 0>>

\* m <= I64Max, as u64 values.
FitsI64(m) == m[1] < LimbBase \div 2

\* Long division of the limbs by 10: quotient limbs and remainder.
DivMod10(m) ==
  LET r1 == m[1] % 10
      n2 == r1 * LimbBase + m[2]
      r2 == n2 % 10
      n3 == r2 * LimbBase + m[3]
      r3 == n3 % 10
      n4 == r3 * LimbBase + m[4]
  IN  [q |-> <<m[1] \div 10, n2 \div 10, n3 \div 10, n4 \div 10>>, r |-> n4 % 10]

RECURSIVE Decimal(_)
\* The decimal digits of a u64 (itoa).
Decimal(m) ==
  LET d == DivMod10(m)
  IN  IF IsZero(d.q) THEN ToString(d.r) ELSE Decimal(d.q) \o ToString(d.r)

\* The decimal text of an i64.
DecimalI64(i) == IF i.neg THEN "-" \o Decimal(i.mag) ELSE Decimal(i.mag)

\* A small natural number, zero-padded to w digits (chrono's %Y, %m, %d, %H...).
RECURSIVE Pad(_, _)
Pad(n, w) ==
  IF w <= 1 THEN ToString(n)
  ELSE IF n < 10^(w - 1) THEN "0" \o Pad(n, w - 1)
  ELSE ToString(n)

(***************************************************************************)
(* base64::encode (standard alphabet, padded).                             *)
(***************************************************************************)
Base64Alphabet ==
  << "A", "B", "C", "D", "E", "F", "G", "H", "I", "J", "K", "L", "M", "N", "O", "P",
      "Q", "R", "S", "T", "U", "V", "W", "X", "Y", "Z", "a", "b", "c", "d", "e", "f",
      "g", "h", "i", "j", "k", "l", "m", "n", "o", "p", "q", "r", "s", "t", "u", "v",
      "w", "x", "y", "z", "0", "1", "2", "3", "4", "5", "6", "7", "8", "9", "+", "/" >>

B64(n) == Base64Alphabet[n + 1]

RECURSIVE Base64Encode(_)
Base64Encode(b) ==
  IF Len(b) = 0 THEN ""
  ELSE IF Len(b) = 1 THEN
    B64(b[1] \div 4) \o B64((b[1] % 4) * 16) \o "=="
  ELSE IF Len(b) = 2 THEN
    B64(b[1] \div 4) \o B64((b[1] % 4) * 16 + b[2] \div 16)
      \o B64((b[2] % 16) * 4) \o "="
  ELSE
    B64(b[1] \div 4) \o B64((b[1] % 4) * 16 + b[2] \div 16)
      \o B64((b[2] % 16) * 4 + b[3] \div 64) \o B64(b[3] % 64)
      \o Base64Encode(SubSeq(b, 4, Len(b)))

(***************************************************************************)
(* The value model: enum Expr and its sub-models.                          *)
(***************************************************************************)
ExprString(s) == [kind |-> "String", val |-> s]
ExprDouble(d) == [kind |-> "Double", val |-> d]
ExprFloat(f) == [kind |-> "Float", val |-> f]
ExprInt(i) == [kind |-> "Int", val |-> i]
ExprUInt(u) == [kind |-> "UInt", val |-> u]
ExprBoolean(b) == [kind |-> "Boolean", val |-> b]
ExprNull == [kind |-> "Null"]
ExprObject(o) == [kind |-> "Object", val |-> o]
ExprBytes(b) == [kind |-> "Bytes", val |-> b]
ExprDate(d) == [kind |-> "Date", val |-> d]
ExprRef(r) == [kind |-> "Ref", val |-> r]
ExprArray(a) == [kind |-> "Array", val |-> a]
ExprSet(s) == [kind |-> "Set", val |-> s]
ExprTimestamp(dt) == [kind |-> "Timestamp", val |-> dt]

\* `n as i64` of a native signed integer, `n as u64` of a native unsigned one.
AsI64(n) == [neg |-> n < 0, mag |-> U64(IF n < 0 THEN -n ELSE n)]

AsU64(n) == U64(n)

\* A finite float written int.frac (frac: its decimal digits), or a
\* non-finite one (NaN, infinity).
Finite(int, frac) == [finite |-> TRUE, int |-> int, frac |-> frac]

NaN == [finite |-> FALSE]

\* The constructing conversions, impl From<T> for Expr.
FromStr(s) == ExprString(s)
FromF64(f) == ExprDouble(f)
FromF32(f) == ExprFloat(f)
FromSigned(n) == ExprInt(AsI64(n))
FromI64(i) == ExprInt(i)
FromUnsigned(n) == ExprUInt(AsU64(n))
FromU64(u) == ExprUInt(u)
FromBool(b) == ExprBoolean(b)
FromObject(o) == ExprObject(o)
FromBytes(b) == ExprBytes(b)
FromVec(a) == ExprArray(a)
FromRef(r) == ExprRef(r)
FromDate(d) == ExprDate(d)
FromSet(s) == ExprSet(s)
FromDateTime(dt) == ExprTimestamp(dt)

(***************************************************************************)
(* Object: an insertion-ordered string-keyed map, a sequence of entries    *)
(* with pairwise distinct keys.                                            *)
(***************************************************************************)
ObjectNew == << >>

ObjectLen(o) == Len(o)

ObjectKeys(o) == [i \in 1..Len(o) |-> o[i].key]

HasKey(o, k) == \E i \in 1..Len(o) : o[i].key = k

IndexOfKey(o, k) == CHOOSE i \in 1..Len(o) : o[i].key = k

ObjectGet(o, k) == o[IndexOfKey(o, k)].value

\* A variant of insert that appends without looking for the key.
ObjectInsertAppend(o, k, v) == Append(o, [key |-> k, value |-> v])

\* insert: a present key keeps its position and takes the new value, a new
\* key is appended.
ObjectInsert(o, k, v) ==
  IF HasKey(o, k)
  THEN [o EXCEPT ![IndexOfKey(o, k)] = [key |-> k, value |-> v]]
  ELSE Append(o, [key |-> k, value |-> v])

(***************************************************************************)
(* Ref: a name and an optional parent (a sequence of length 0 or 1).       *)
(***************************************************************************)
RefRoot(id) == [id |-> id, class |-> << >>]

RefNew(id, class) == [id |-> id, class |-> <<class>>]

RefClass(id) == RefNew(id, RefRoot("classes"))

RefIndex(id) == RefNew(id, RefRoot("indexes"))

RECURSIVE RefPath(_)
RefPath(r) ==
  IF r.class = << >> THEN r.id ELSE RefPath(r.class[1]) \o "/" \o r.id

(***************************************************************************)
(* Set: a match target and terms.                                          *)
(***************************************************************************)
SetMatching(r, terms) == [matching |-> ExprRef(r), terms |-> terms]

\* NaiveDate::format("%Y-%m-%d") and DateTime<Utc>::to_rfc3339, for years
\* 0..9999 and whole seconds.
FormatDate(d) == Pad(d.y, 4) \o "-" \o Pad(d.m, 2) \o "-" \o Pad(d.d, 2)

ToRfc3339(dt) ==
  FormatDate(dt) \o "T" \o Pad(dt.h, 2) \o ":" \o Pad(dt.mi, 2) \o ":"
    \o Pad(dt.s, 2) \o "+00:00"

(***************************************************************************)
(* The output sink: serde_json's Serializer with the compact formatter,    *)
(* over a writer whose fail-th write fails with the io error `raise`.  One *)
(* call on the Serializer is zero or more writes on the writer; a failing  *)
(* write adds nothing to the writer, and the call returns its error        *)
(* without making the writes that would follow.                            *)
(*   out    the fragments written so far, one per write                    *)
(*   writes the number of writes issued so far, a failing one included     *)
(*   err    the error a call returned, or NoError                          *)
(*   maps   for every map closed so far: who opened it, the entry count    *)
(*          declared at serialize_map and the entries written (history)    *)
(***************************************************************************)
NoError == "none"

Sink(fail, raise) ==
  [out |-> << >>, writes |-> 0, fail |-> fail, raise |-> raise,
   err |-> NoError, maps |-> << >>]

\* A variant of serialize without the `?`: errors are not looked at.
FailedNever(sk) == FALSE

\* The `?` after every sink call of Expr::serialize: once an operation has
\* returned an error, serialize has returned it and issues nothing more.
Failed(sk) == sk.err # NoError

\* One call on the Serializer, which writes the fragments frags one by
\* one.  If the failing write is the k-th of them, the k - 1 before it
\* reach the writer and the call returns the error; a call that writes
\* nothing cannot fail.
SinkOp(sk, frags) ==
  IF Failed(sk) THEN sk
  ELSE LET k == sk.fail - sk.writes
       IN  IF k \in 1..Len(frags)
           THEN [sk EXCEPT !.writes = sk.fail,
                           !.out = @ \o SubSeq(frags, 1, k - 1),
                           !.err = sk.raise]
           ELSE [sk EXCEPT !.writes = @ + Len(frags), !.out = @ \o frags]

\* What one write holds: a delimiter, a number, one of true, false, null,
\* the quote that opens or closes a string, or the text of a string.
Punct(s) == [t |-> "punct", s |-> s]
Num(s) == [t |-> "num", s |-> s]
Lit(s) == [t |-> "lit", s |-> s]
Quote == [t |-> "quote", s |-> "\""]
Frag(s) == [t |-> "frag", s |-> s]

\* A string is written as the opening quote, its text (if it has any; the
\* strings of the model hold no character that JSON escapes) and the
\* closing quote.
StrWrites(s) ==
  <<Quote>> \o (IF s = "" THEN << >> ELSE <<Frag(s)>>) \o <<Quote>>

RECURSIVE Digits(_)
Digits(ds) == IF ds = << >> THEN "" ELSE ToString(Head(ds)) \o Digits(Tail(ds))

\* A finite float prints as int.frac, a non-finite one as null.
FloatToken(f) ==
  IF f.finite THEN Num(ToString(f.int) \o "." \o Digits(f.frac))
  ELSE Lit("null")

serialize_str(sk, s) == SinkOp(sk, StrWrites(s))
serialize_f64(sk, d) == SinkOp(sk, <<FloatToken(d)>>)
serialize_f32(sk, f) == SinkOp(sk, <<FloatToken(f)>>)
serialize_i64(sk, i) == SinkOp(sk, <<Num(DecimalI64(i))>>)
serialize_u64(sk, u) == SinkOp(sk, <<Num(Decimal(u))>>)
serialize_bool(sk, b) == SinkOp(sk, <<Lit(IF b THEN "true" ELSE "false")>>)
serialize_none(sk) == SinkOp(sk, <<Lit("null")>>)

\* The state of an open map or sequence (serde_json's Compound), with the
\* declared length and the entries written so far.
Compound(len) ==
  [state |-> IF len = 0 THEN "Empty" ELSE "First",
   declared |-> len, written |-> 0]

\* serialize_map(Some(len)) and serialize_struct(_, len): a declared length
\* of 0 writes the whole map, both braces, at once.
serialize_map(sk, len) ==
  SinkOp(sk, IF len = 0 THEN <<Punct("{"), Punct("}")>> ELSE <<Punct("{")>>)

\* The key part of serialize_entry: a comma unless this is the first entry
\* of a map declared non-empty, then the key and the colon.  The value part
\* is the serialization of the value.
serialize_key(sk, c, key) ==
  SinkOp(sk, (IF c.state = "First" THEN << >> ELSE <<Punct(",")>>)
               \o StrWrites(key) \o <<Punct(":")>>)

AfterEntry(c) == [c EXCEPT !.state = "Rest", !.written = @ + 1]

\* SerializeMap::end: closes the map unless serialize_map did already.
map_end(sk, c, by) ==
  LET s == SinkOp(sk, IF c.state = "Empty" THEN << >> ELSE <<Punct("}")>>)
  IN  IF Failed(s) THEN s
      ELSE [s EXCEPT !.maps = Append(@, [by |-> by, declared |-> c.declared,
                                          written |-> c.written])]

serialize_seq(sk, len) ==
  SinkOp(sk, IF len = 0 THEN <<Punct("["), Punct("]")>> ELSE <<Punct("[")>>)

\* The separator part of serialize_element.
serialize_element(sk, c) ==
  SinkOp(sk, IF c.state = "First" THEN << >> ELSE <<Punct(",")>>)

seq_end(sk, c) ==
  SinkOp(sk, IF c.state = "Empty" THEN << >> ELSE <<Punct("]")>>)

(***************************************************************************)
(* impl Serialize for Expr, one operator per match arm.                    *)
(***************************************************************************)
RECURSIVE Serialize(_, _)

RECURSIVE SerializeEntries(_, _, _, _)
\* The entries of a map from the i-th on, each by serialize_entry.
SerializeEntries(sk, c, o, i) ==
  IF i > Len(o) THEN [sk |-> sk, c |-> c]
  ELSE SerializeEntries(Serialize(serialize_key(sk, c, o[i].key), o[i].value),
                        AfterEntry(c), o, i + 1)

\* impl Serialize for Object: the map itself, its true length declared.
SerializeObject(sk, o) ==
  LET r == SerializeEntries(serialize_map(sk, Len(o)), Compound(Len(o)), o, 1)
  IN  map_end(r.sk, r.c, "Object")

\* impl Serialize for Set: a struct of the two fields match and terms.
SerializeSet(sk, s) ==
  LET fields == <<[key |-> "match", value |-> s.matching],
                  [key |-> "terms", value |-> s.terms]>>
      r == SerializeEntries(serialize_map(sk, 2), Compound(2), fields, 1)
  IN  map_end(r.sk, r.c, "Set")

\* Expr::Object(obj): serialize_map(Some(obj.len())), one entry, end.
SerializeObjectArm(sk, obj) ==
  LET c == Compound(ObjectLen(obj))
      s1 == serialize_map(sk, ObjectLen(obj))
      s2 == SerializeObject(serialize_key(s1, c, "object"), obj)
  IN  map_end(s2, AfterEntry(c), "Expr::Object")

\* Expr::Bytes(b)
SerializeBytesArm(sk, b) ==
  LET c == Compound(1)
      s1 == serialize_map(sk, 1)
      s2 == serialize_str(serialize_key(s1, c, "@bytes"), Base64Encode(b))
  IN  map_end(s2, AfterEntry(c), "Expr::Bytes")

\* Expr::Date(d)
SerializeDateArm(sk, d) ==
  LET c == Compound(1)
      s1 == serialize_map(sk, 1)
      s2 == serialize_str(serialize_key(s1, c, "@date"), FormatDate(d))
  IN  map_end(s2, AfterEntry(c), "Expr::Date")

\* A variant of the Ref arm that writes the Ref's own name, not its path.
SerializeRefArmName(sk, r) ==
  LET c == Compound(1)
      s1 == serialize_map(sk, 1)
      s2 == serialize_str(serialize_key(s1, c, "@ref"), r.id)
  IN  map_end(s2, AfterEntry(c), "Expr::Ref")

\* Expr::Ref(r)
SerializeRefArm(sk, r) ==
  LET c == Compound(1)
      s1 == serialize_map(sk, 1)
      s2 == serialize_str(serialize_key(s1, c, "@ref"), RefPath(r))
  IN  map_end(s2, AfterEntry(c), "Expr::Ref")

RECURSIVE SerializeElements(_, _, _, _)
\* for element in ary { seq.serialize_element(&element)?; }
SerializeElements(sk, c, ary, i) ==
  IF i > Len(ary) THEN [sk |-> sk, c |-> c]
  ELSE SerializeElements(Serialize(serialize_element(sk, c), ary[i]),
                         AfterEntry(c), ary, i + 1)

\* Expr::Array(ary)
SerializeArrayArm(sk, ary) ==
  LET r == SerializeElements(serialize_seq(sk, Len(ary)), Compound(Len(ary)),
                             ary, 1)
  IN  seq_end(r.sk, r.c)

\* Expr::Set(s): serialize_map(Some(2)), one entry, end.
SerializeSetArm(sk, s) ==
  LET c == Compound(2)
      s1 == serialize_map(sk, 2)
      s2 == SerializeSet(serialize_key(s1, c, "@set"), s)
  IN  map_end(s2, AfterEntry(c), "Expr::Set")

\* Expr::Timestamp(dt)
SerializeTimestampArm(sk, dt) ==
  LET c == Compound(1)
      s1 == serialize_map(sk, 1)
      s2 == serialize_str(serialize_key(s1, c, "@ts"), ToRfc3339(dt))
  IN  map_end(s2, AfterEntry(c), "Expr::Timestamp")

Serialize(sk, e) ==
  CASE e.kind = "String" -> serialize_str(sk, e.val)
    [] e.kind = "Double" -> serialize_f64(sk, e.val)
    [] e.kind = "Float" -> serialize_f32(sk, e.val)
    [] e.kind = "Int" -> serialize_i64(sk, e.val)
    [] e.kind = "UInt" -> serialize_u64(sk, e.val)
    [] e.kind = "Boolean" -> serialize_bool(sk, e.val)
    [] e.kind = "Null" -> serialize_none(sk)
    [] e.kind = "Object" -> SerializeObjectArm(sk, e.val)
    [] e.kind = "Bytes" -> SerializeBytesArm(sk, e.val)
    [] e.kind = "Date" -> SerializeDateArm(sk, e.val)
    [] e.kind = "Ref" -> SerializeRefArm(sk, e.val)
    [] e.kind = "Array" -> SerializeArrayArm(sk, e.val)
    [] e.kind = "Set" -> SerializeSetArm(sk, e.val)
    [] e.kind = "Timestamp" -> SerializeTimestampArm(sk, e.val)

\* The Result<S::Ok, S::Error> of serialize, with what the sink received.
SerializeResult(e, fail, raise) ==
  LET sk == Serialize(Sink(fail, raise), e)
  IN  [input |-> e, ok |-> sk.err = NoError, err |-> sk.err, out |-> sk.out,
       writes |-> sk.writes, fail |-> fail, raise |-> raise, maps |-> sk.maps]

RECURSIVE Render(_)
\* The text the writer holds (serde_json::to_string).
Render(frags) ==
  IF frags = << >> THEN "" ELSE Head(frags).s \o Render(Tail(frags))

(***************************************************************************)
(* impl From<serde_json::Value> for Expr.  A Number is held as PosInt(u64),*)
(* NegInt(i64, always negative) or Float(f64, always finite).              *)
(***************************************************************************)
ValueNull == [kind |-> "Null"]
ValueBool(b) == [kind |-> "Bool", val |-> b]
ValueNumber(n) == [kind |-> "Number", val |-> n]
ValueString(s) == [kind |-> "String", val |-> s]
ValueArray(a) == [kind |-> "Array", val |-> a]
ValueObject(o) == [kind |-> "Object", val |-> o]

PosInt(m) == [n |-> "PosInt", mag |-> m]
NegInt(m) == [n |-> "NegInt", mag |-> m]
Float(f) == [n |-> "Float", f |-> f]

is_i64(num) ==
  CASE num.n = "PosInt" -> FitsI64(num.mag)
    [] num.n = "NegInt" -> TRUE
    [] num.n = "Float" -> FALSE

is_u64(num) == num.n = "PosInt"

\* Called only where is_i64, is_u64 hold; as_f64 only on what is left, a Float.
as_i64(num) == [neg |-> num.n = "NegInt", mag |-> num.mag]

as_u64(num) == num.mag

as_f64(num) == num.f

\* The conversion returned e.
Returned(e) == [ok |-> TRUE, expr |-> e]

\* unimplemented!(): the conversion panicked and returned nothing.
Panicked == [ok |-> FALSE, panic |-> "not implemented"]

\* A variant of the conversion that tries is_u64 before is_i64.
FromValueUnsignedFirst(val) ==
  CASE val.kind = "Null" -> Returned(ExprNull)
    [] val.kind = "Bool" -> Returned(FromBool(val.val))
    [] val.kind = "Number" ->
         IF is_u64(val.val) THEN Returned(FromU64(as_u64(val.val)))
         ELSE IF is_i64(val.val) THEN Returned(FromI64(as_i64(val.val)))
         ELSE Returned(FromF64(as_f64(val.val)))
    [] val.kind = "String" -> Returned(FromStr(val.val))
    [] OTHER -> Panicked

\* A variant of the conversion that maps what it does not handle to Null.
FromValueLenient(val) ==
  CASE val.kind = "Null" -> Returned(ExprNull)
    [] val.kind = "Bool" -> Returned(FromBool(val.val))
    [] val.kind = "Number" ->
         IF is_i64(val.val) THEN Returned(FromI64(as_i64(val.val)))
         ELSE IF is_u64(val.val) THEN Returned(FromU64(as_u64(val.val)))
         ELSE Returned(FromF64(as_f64(val.val)))
    [] val.kind = "String" -> Returned(FromStr(val.val))
    [] OTHER -> Returned(ExprNull)

FromValue(val) ==
  CASE val.kind = "Null" -> Returned(ExprNull)
    [] val.kind = "Bool" -> Returned(FromBool(val.val))
    [] val.kind = "Number" ->
         IF is_i64(val.val) THEN Returned(FromI64(as_i64(val.val)))
         ELSE IF is_u64(val.val) THEN Returned(FromU64(as_u64(val.val)))
         ELSE Returned(FromF64(as_f64(val.val)))
    [] val.kind = "String" -> Returned(FromStr(val.val))
    [] OTHER -> Panicked

(***************************************************************************)
(* The inputs of the model.                                                *)
(***************************************************************************)
Strs == {"bar"}
Doubles == {Finite(4, <<1, 2>>)}
Floats == {NaN}
Signeds == {4}
Unsigneds == {4}
Bools == {FALSE}
ByteSeqs == {<<1, 2, 3, 4>>}
Dates == {[y |-> 2001, m |-> 5, d |-> 31]}
Refs == {RefNew("foo", RefClass("test")), RefIndex("cats_age")}
DateTimes == {[y |-> 2019, m |-> 5, d |-> 26, h |-> 16, mi |-> 20, s |-> 0]}
Keys == {"foo", "@ref"}
Errors == {"io", "full"}

Limbs == {0, LimbBase - 1}
TopLimbs == {0, LimbBase \div 2 - 1, LimbBase \div 2, LimbBase - 1}
Mags == {<<a, b, c, d>> : a \in TopLimbs, b \in Limbs, c \in Limbs, d \in Limbs}
        \cup {U64(4)}
\* The magnitudes of the negative i64: 1..2^63.
NegMags == {m \in Mags : ~IsZero(m) /\ (FitsI64(m) \/ m = I64MaxPlus1)}
NumberFloats == {Finite(1, <<0>>), Finite(4, <<1, 2>>), Finite(0, <<5>>)}
Numbers == {PosInt(m) : m \in Mags} \cup {NegInt(m) : m \in NegMags}
           \cup {Float(f) : f \in NumberFloats}
Values ==
  {ValueNull} \cup {ValueBool(b) : b \in BOOLEAN}
    \cup {ValueNumber(n) : n \in Numbers}
    \cup {ValueString(s) : s \in {"cat", ""}}
    \cup {ValueArray(a) : a \in {<< >>, <<ValueNull>>, <<ValueNumber(PosInt(U64(4)))>>}}
    \cup {ValueObject(o) : o \in {<< >>, <<[key |-> "a", value |-> ValueNull]>>}}

(***************************************************************************)
(* State.                                                                  *)
(*   object  the Object under assembly                                     *)
(*   vec     the Vec<Expr> under assembly                                  *)
(*   expr    the Expr built last, or NoExpr once it has been moved         *)
(*   res     what serde_json returned for expr, or NoRes                   *)
(*   value   the generic JSON value to convert, or NoValue                 *)
(*   conv    what Expr::from(value) did, or NoConv                         *)
(*   hist    the (key, value) pairs inserted into object since Object::new *)
(*           (history, kept by the Object specification only)              *)
(***************************************************************************)
NoExpr == [kind |-> "none"]
NoRes == [input |-> NoExpr]
NoValue == [kind |-> "none"]
NoConv == [ok |-> FALSE]

RECURSIVE Size(_)
RECURSIVE SizeAll(_)
\* The number of Expr nodes of a tree, of a sequence of trees.
SizeAll(s) == IF s = << >> THEN 0 ELSE Size(Head(s)) + SizeAll(Tail(s))

Size(e) ==
  CASE e.kind = "none" -> 0
    [] e.kind = "Array" -> 1 + SizeAll(e.val)
    [] e.kind = "Object" -> 1 + SizeAll([i \in 1..Len(e.val) |-> e.val[i].value])
    [] e.kind = "Set" -> 2 + Size(e.val.terms)
    [] OTHER -> 1

SizeObject(o) == SizeAll([i \in 1..Len(o) |-> o[i].value])

\* Room for n more nodes beside object and vec.
Room(n) == SizeObject(object) + SizeAll(vec) + n <= MaxNodes

Init ==
  /\ object = ObjectNew
  /\ vec = << >>
  /\ expr = NoExpr
  /\ res = NoRes
  /\ value = NoValue
  /\ conv = NoConv
  /\ hist = << >>

Building == res = NoRes /\ value = NoValue

\* expr = Expr::from(s) for a &str or String s
NewString ==
  /\ Building
  /\ Room(1)
  /\ \E s \in Strs : expr' = FromStr(s)
  /\ UNCHANGED <<object, vec, res, value, conv, hist>>

\* expr = Expr::from(f) for an f64 f
NewDouble ==
  /\ Building
  /\ Room(1)
  /\ \E f \in Doubles : expr' = FromF64(f)
  /\ UNCHANGED <<object, vec, res, value, conv, hist>>

\* expr = Expr::from(f) for an f32 f
NewFloat ==
  /\ Building
  /\ Room(1)
  /\ \E f \in Floats : expr' = FromF32(f)
  /\ UNCHANGED <<object, vec, res, value, conv, hist>>

\* expr = Expr::from(n) for an i8, i16, i32, i64 or isize n
NewInt ==
  /\ Building
  /\ Room(1)
  /\ \E n \in Signeds : expr' = FromSigned(n)
  /\ UNCHANGED <<object, vec, res, value, conv, hist>>

\* expr = Expr::from(n) for a u8, u16, u32, u64 or usize n
NewUInt ==
  /\ Building
  /\ Room(1)
  /\ \E n \in Unsigneds : expr' = FromUnsigned(n)
  /\ UNCHANGED <<object, vec, res, value, conv, hist>>

\* expr = Expr::from(b) for a bool b
NewBoolean ==
  /\ Building
  /\ Room(1)
  /\ \E b \in Bools : expr' = FromBool(b)
  /\ UNCHANGED <<object, vec, res, value, conv, hist>>

\* expr = Expr::Null
NewNull ==
  /\ Building
  /\ Room(1)
  /\ expr' = ExprNull
  /\ UNCHANGED <<object, vec, res, value, conv, hist>>

\* expr = Expr::from(b) for a Vec<u8> or &[u8] b
NewBytes ==
  /\ Building
  /\ Room(1)
  /\ \E b \in ByteSeqs : expr' = FromBytes(b)
  /\ UNCHANGED <<object, vec, res, value, conv, hist>>

\* expr = Expr::from(d) for a NaiveDate d
NewDate ==
  /\ Building
  /\ Room(1)
  /\ \E d \in Dates : expr' = FromDate(d)
  /\ UNCHANGED <<object, vec, res, value, conv, hist>>

\* expr = Expr::from(r) for a Ref r
NewRef ==
  /\ Building
  /\ Room(1)
  /\ \E r \in Refs : expr' = FromRef(r)
  /\ UNCHANGED <<object, vec, res, value, conv, hist>>

\* expr = Expr::from(dt) for a DateTime<Utc> dt
NewTimestamp ==
  /\ Building
  /\ Room(1)
  /\ \E dt \in DateTimes : expr' = FromDateTime(dt)
  /\ UNCHANGED <<object, vec, res, value, conv, hist>>

\* object.insert(k, expr): expr is moved into the Object.
Insert ==
  /\ Building
  /\ expr # NoExpr
  /\ \E k \in Keys : object' = ObjectInsert(object, k, expr)
  /\ expr' = NoExpr
  /\ UNCHANGED <<vec, res, value, conv, hist>>

\* vec.push(expr)
Push ==
  /\ Building
  /\ expr # NoExpr
  /\ vec' = Append(vec, expr)
  /\ expr' = NoExpr
  /\ UNCHANGED <<object, res, value, conv, hist>>

\* expr = Expr::from(object): the Object is moved, a new one begun.
NewObject ==
  /\ Building
  /\ SizeAll(vec) + 1 + SizeObject(object) <= MaxNodes
  /\ expr' = FromObject(object)
  /\ object' = ObjectNew
  /\ UNCHANGED <<vec, res, value, conv, hist>>

\* expr = Expr::from(vec)
NewArray ==
  /\ Building
  /\ SizeObject(object) + 1 + SizeAll(vec) <= MaxNodes
  /\ expr' = FromVec(vec)
  /\ vec' = << >>
  /\ UNCHANGED <<object, res, value, conv, hist>>

\* expr = Expr::from(Set::matching(r, expr))
NewSet ==
  /\ Building
  /\ expr # NoExpr
  /\ Room(Size(expr) + 2)
  /\ \E r \in Refs : expr' = FromSet(SetMatching(r, expr))
  /\ UNCHANGED <<object, vec, res, value, conv, hist>>

\* The assembled tree is handed to serde_json, which serializes expr; the
\* sink's fail-th operation, if any, fails.
Encode ==
  /\ Building
  /\ expr # NoExpr
  /\ object = ObjectNew
  /\ vec = << >>
  /\ \E fail \in 0..MaxFail, raise \in Errors :
       /\ fail = 0 => raise = "io"
       /\ res' = SerializeResult(expr, fail, raise)
  /\ UNCHANGED <<object, vec, expr, value, conv, hist>>

\* The value tree and the result are dropped.
Drop ==
  /\ res # NoRes
  /\ object' = ObjectNew
  /\ vec' = << >>
  /\ expr' = NoExpr
  /\ res' = NoRes
  /\ UNCHANGED <<value, conv, hist>>

Next ==
  \/ NewString \/ NewDouble \/ NewFloat \/ NewInt \/ NewUInt \/ NewBoolean
  \/ NewNull \/ NewBytes \/ NewDate \/ NewRef \/ NewTimestamp
  \/ Insert \/ Push \/ NewObject \/ NewArray \/ NewSet
  \/ Encode \/ Drop

Spec == Init /\ [][Next]_vars

(***************************************************************************)
(* Conversion from generic JSON: a value arrives, Expr::from converts it.  *)
(***************************************************************************)
InitConv ==
  /\ object = ObjectNew
  /\ vec = << >>
  /\ expr = NoExpr
  /\ res = NoRes
  /\ value \in Values
  /\ conv = NoConv
  /\ hist = << >>

\* conv = Expr::from(value); a panic aborts the program.
Convert ==
  /\ value # NoValue
  /\ conv = NoConv
  /\ conv' = FromValue(value)
  /\ expr' = IF FromValue(value).ok THEN FromValue(value).expr ELSE expr
  /\ UNCHANGED <<object, vec, res, value, hist>>

\* The next value arrives, unless the program has aborted.
Arrive ==
  /\ conv # NoConv
  /\ conv.ok
  /\ value' \in Values
  /\ conv' = NoConv
  /\ expr' = NoExpr
  /\ UNCHANGED <<object, vec, res, hist>>

NextConv == Convert \/ Arrive

SpecConv == InitConv /\ [][NextConv]_vars

(***************************************************************************)
(* Assembly of one Object: Object::new(), a sequence of insert calls, and  *)
(* the encoding of the Object built.                                       *)
(***************************************************************************)
\* The number of insert calls on one Object.
MaxInserts == 3

ObjectKeySet == {"foo", "lol", "@ref"}
ObjectValues == {FromStr("bar"), FromBool(FALSE), FromVec(<< >>)}

\* object = Object::new()
ObjectCreate ==
  /\ res = NoRes
  /\ hist # << >>
  /\ object' = ObjectNew
  /\ hist' = << >>
  /\ UNCHANGED <<vec, expr, res, value, conv>>

\* object.insert(k, v)
ObjectInsertCall ==
  /\ res = NoRes
  /\ Len(hist) < MaxInserts
  /\ \E k \in ObjectKeySet, v \in ObjectValues :
       /\ object' = ObjectInsert(object, k, v)
       /\ hist' = Append(hist, [key |-> k, value |-> v])
  /\ UNCHANGED <<vec, expr, res, value, conv>>

\* serde_json::to_string(&Expr::from(object.clone()))
ObjectEncode ==
  /\ res = NoRes
  /\ res' = SerializeResult(FromObject(object), 0, "io")
  /\ UNCHANGED <<object, vec, expr, value, conv, hist>>

\* The encoding is dropped; assembly goes on.
ObjectResume ==
  /\ res # NoRes
  /\ res' = NoRes
  /\ UNCHANGED <<object, vec, expr, value, conv, hist>>

NextObject == ObjectCreate \/ ObjectInsertCall \/ ObjectEncode \/ ObjectResume

SpecObject == Init /\ [][NextObject]_vars

(***************************************************************************)
(* Reading JSON text back: the value a token sequence denotes, if it is    *)
(* well-formed JSON.                                                       *)
(***************************************************************************)
\* The tokens of JSON text: delimiters, numbers, literals and strings.
Str(s) == [t |-> "str", s |-> s]

\* What is left of a string whose closing quote was not written.
Unterminated == [t |-> "unterminated", s |-> ""]

RECURSIVE Tokenize(_)
\* The tokens of the fragments written.
Tokenize(w) ==
  IF w = << >> THEN << >>
  ELSE IF Head(w).t = "quote" THEN
    IF Len(w) >= 2 /\ w[2].t = "quote"
      THEN <<Str("")>> \o Tokenize(SubSeq(w, 3, Len(w)))
    ELSE IF Len(w) >= 3 /\ w[2].t = "frag" /\ w[3].t = "quote"
      THEN <<Str(w[2].s)>> \o Tokenize(SubSeq(w, 4, Len(w)))
    ELSE <<Unterminated>>
  ELSE <<Head(w)>> \o Tokenize(Tail(w))

JScalar(tok) == [j |-> "scalar", v |-> tok]
JArr(items) == [j |-> "arr", v |-> items]
JObj(members) == [j |-> "obj", v |-> members]
Member(k, v) == [key |-> k, value |-> v]

Bad == [ok |-> FALSE]
Good(next, v) == [ok |-> TRUE, next |-> next, v |-> v]

RECURSIVE ParseValue(_, _)
RECURSIVE ParseMembers(_, _, _)
RECURSIVE ParseItems(_, _, _)

\* The value that starts at token i, and the index after it.
ParseValue(t, i) ==
  IF i > Len(t) THEN Bad
  ELSE IF t[i] = Punct("{") THEN
    IF i < Len(t) /\ t[i + 1] = Punct("}") THEN Good(i + 2, JObj(<< >>))
    ELSE ParseMembers(t, i + 1, << >>)
  ELSE IF t[i] = Punct("[") THEN
    IF i < Len(t) /\ t[i + 1] = Punct("]") THEN Good(i + 2, JArr(<< >>))
    ELSE ParseItems(t, i + 1, << >>)
  ELSE IF t[i].t \notin {"str", "num", "lit"} THEN Bad
  ELSE Good(i + 1, JScalar(t[i]))

ParseMembers(t, i, acc) ==
  IF i + 1 > Len(t) THEN Bad
  ELSE IF t[i].t # "str" \/ t[i + 1] # Punct(":") THEN Bad
  ELSE LET r == ParseValue(t, i + 2)
       IN  IF ~r.ok THEN Bad
           ELSE IF r.next > Len(t) THEN Bad
           ELSE IF t[r.next] = Punct(",")
             THEN ParseMembers(t, r.next + 1, Append(acc, Member(t[i].s, r.v)))
           ELSE IF t[r.next] = Punct("}")
             THEN Good(r.next + 1, JObj(Append(acc, Member(t[i].s, r.v))))
           ELSE Bad

ParseItems(t, i, acc) ==
  LET r == ParseValue(t, i)
  IN  IF ~r.ok THEN Bad
      ELSE IF r.next > Len(t) THEN Bad
      ELSE IF t[r.next] = Punct(",")
        THEN ParseItems(t, r.next + 1, Append(acc, r.v))
      ELSE IF t[r.next] = Punct("]")
        THEN Good(r.next + 1, JArr(Append(acc, r.v)))
      ELSE Bad

NotJson == [ok |-> FALSE]
Json(v) == [ok |-> TRUE, v |-> v]

\* The JSON value the fragments written denote.
ParseJson(w) ==
  LET t == Tokenize(w)
      r == ParseValue(t, 1)
  IN  IF r.ok THEN (IF r.next = Len(t) + 1 THEN Json(r.v) ELSE NotJson)
      ELSE NotJson

\* What serde_json writes for e when no sink operation fails.
Encoding(e) == SerializeResult(e, 0, "io").out

(***************************************************************************)
(* The wire format of section 4.2, as JSON values.                         *)
(***************************************************************************)
RECURSIVE Wire(_)
Wire(e) ==
  CASE e.kind = "String" -> JScalar(Str(e.val))
    [] e.kind = "Double" -> JScalar(FloatToken(e.val))
    [] e.kind = "Float" -> JScalar(FloatToken(e.val))
    [] e.kind = "Int" -> JScalar(Num(DecimalI64(e.val)))
    [] e.kind = "UInt" -> JScalar(Num(Decimal(e.val)))
    [] e.kind = "Boolean" -> JScalar(Lit(IF e.val THEN "true" ELSE "false"))
    [] e.kind = "Null" -> JScalar(Lit("null"))
    [] e.kind = "Bytes" ->
         JObj(<<Member("@bytes", JScalar(Str(Base64Encode(e.val))))>>)
    [] e.kind = "Date" ->
         JObj(<<Member("@date", JScalar(Str(FormatDate(e.val))))>>)
    [] e.kind = "Timestamp" ->
         JObj(<<Member("@ts", JScalar(Str(ToRfc3339(e.val))))>>)
    [] e.kind = "Ref" -> JObj(<<Member("@ref", JScalar(Str(RefPath(e.val))))>>)
    [] e.kind = "Array" -> JArr([i \in 1..Len(e.val) |-> Wire(e.val[i])])
    [] e.kind = "Object" ->
         JObj(<<Member("object",
                  JObj([i \in 1..Len(e.val) |->
                          Member(e.val[i].key, Wire(e.val[i].value))]))>>)
    [] e.kind = "Set" ->
         JObj(<<Member("@set",
                  JObj(<<Member("match", Wire(e.val.matching)),
                         Member("terms", Wire(e.val.terms))>>))>>)

\* An encode call has returned Ok.
Encoded == res # NoRes /\ res.ok

(***************************************************************************)
(* Properties.                                                             *)
(***************************************************************************)

\* C1: every Object, whatever its content, encodes to a well-formed JSON
\* object with the single key "object", whose value is the map of the
\* Object's entries, each value in its wire form; the empty Object encodes
\* to {"object":{}}.
C1_ObjectWrapped ==
  (Encoded /\ res.input.kind = "Object") =>
    ParseJson(res.out) = Json(Wire(res.input))

ScalarKinds == {"String", "Double", "Float", "Int", "UInt", "Boolean", "Null"}

\* The reserved tag key of the variants that encode as a one-key object.
TagOf(kind) ==
  CASE kind = "Bytes" -> "@bytes"
    [] kind = "Date" -> "@date"
    [] kind = "Timestamp" -> "@ts"
    [] kind = "Ref" -> "@ref"
    [] kind = "Set" -> "@set"
    [] kind = "Object" -> "object"

\* Values of the tagged variants other than Object.
TaggedValues ==
  {FromBytes(b) : b \in ByteSeqs} \cup {FromDate(d) : d \in Dates}
    \cup {FromDateTime(dt) : dt \in DateTimes} \cup {FromRef(r) : r \in Refs}
    \cup {FromRef(RefRoot(s)) : s \in Strs}
    \cup {FromSet(SetMatching(r, FromStr(s))) : r \in Refs, s \in Strs}

\* The top-level JSON value v has the shape of the variant kind.
TopLevelShape(v, kind) ==
  IF kind \in ScalarKinds THEN v.j = "scalar"
  ELSE IF kind = "Array" THEN v.j = "arr"
  ELSE v.j = "obj" /\ Len(v.v) = 1 /\ v.v[1].key = TagOf(kind)

\* C2: the encoding of any Expr is a JSON scalar or null, a JSON array, or
\* a JSON object with exactly one key, the reserved tag of its variant; and
\* the encoding of an Object is never that of a Bytes, Date, Timestamp, Ref
\* or Set value.
C2_TaggedTopLevel ==
  Encoded =>
    /\ ParseJson(res.out).ok
    /\ TopLevelShape(ParseJson(res.out).v, res.input.kind)
    /\ res.input.kind = "Object" =>
         \A t \in TaggedValues : res.out # Encoding(t)

\* The keys inserted so far, each once, in the order of its first insert.
RECURSIVE FirstInsertOrder(_)
FirstInsertOrder(h) ==
  IF h = << >> THEN << >>
  ELSE LET before == FirstInsertOrder(SubSeq(h, 1, Len(h) - 1))
           k == h[Len(h)].key
       IN  IF \E i \in 1..Len(before) : before[i] = k THEN before
           ELSE Append(before, k)

\* The value of the most recent insert of key k.
LastInserted(h, k) ==
  LET last == CHOOSE i \in 1..Len(h) :
                /\ h[i].key = k
                /\ \A j \in (i + 1)..Len(h) : h[j].key # k
  IN  h[last].value

RECURSIVE KeysAtDepth(_, _, _)
\* The keys (string tokens followed by a colon) at nesting depth d of a
\* token sequence; cur is the depth at the head of the sequence.
KeysAtDepth(t, d, cur) ==
  IF t = << >> THEN << >>
  ELSE LET tok == Head(t)
       IN  IF tok \in {Punct("{"), Punct("[")}
             THEN KeysAtDepth(Tail(t), d, cur + 1)
           ELSE IF tok \in {Punct("}"), Punct("]")}
             THEN KeysAtDepth(Tail(t), d, cur - 1)
           ELSE IF tok.t = "str" /\ cur = d /\ Len(t) > 1 /\ t[2] = Punct(":")
             THEN <<tok.s>> \o KeysAtDepth(Tail(t), d, cur)
           ELSE KeysAtDepth(Tail(t), d, cur)

\* C3: after any sequence of insert calls on a new Object, the keys are
\* pairwise distinct, len() is the number of distinct keys inserted, each
\* key maps to the value of its most recent insert, and the keys stand in
\* the Object and in its encoded map in the order of their first insertion.
C3_InsertOrder ==
  /\ \A i, j \in 1..Len(object) : object[i].key = object[j].key => i = j
  /\ ObjectLen(object) = Cardinality({hist[i].key : i \in 1..Len(hist)})
  /\ \A i \in 1..Len(hist) :
       /\ HasKey(object, hist[i].key)
       /\ ObjectGet(object, hist[i].key) = LastInserted(hist, hist[i].key)
  /\ ObjectKeys(object) = FirstInsertOrder(hist)
  /\ Encoded => KeysAtDepth(Tokenize(res.out), 2, 0) = FirstInsertOrder(hist)

\* A key inserted twice with different values, another key between, and the
\* Object encoded.
C3_Witness ==
  /\ Len(hist) = 3
  /\ hist[1].key = hist[3].key
  /\ hist[1].value # hist[3].value
  /\ hist[2].key # hist[1].key
  /\ Encoded
  /\ KeysAtDepth(Tokenize(res.out), 2, 0) = <<hist[1].key, hist[2].key>>

\* The writes the encoding of e issues when none fails.
TotalWrites(e) == SerializeResult(e, 0, "io").writes

\* C4: encoding returns Ok whenever no sink operation fails; when one
\* fails, the encoder returns exactly the sink's error and nothing is
\* issued to the sink after the failing write (the writer holds exactly
\* what was written before it); the encoder never originates an error.
C4_SinkErrors ==
  res # NoRes =>
    IF res.fail \in 1..TotalWrites(res.input)
    THEN /\ ~res.ok
         /\ res.err = res.raise
         /\ res.writes = res.fail
         /\ res.out = SubSeq(Encoding(res.input), 1, res.fail - 1)
    ELSE /\ res.ok
         /\ res.err = NoError
         /\ res.writes = TotalWrites(res.input)
         /\ Len(res.out) = res.writes

\* A write in the middle of an encoding failed, inside a string.
C4_Witness ==
  /\ res # NoRes
  /\ ~res.ok
  /\ res.fail > 1
  /\ res.fail < TotalWrites(res.input)
  /\ res.err = "full"
  /\ res.out # << >>
  /\ res.out[Len(res.out)].t = "frag"

\* The integer a Number is equal to, if it is equal to one: [neg, mag].
IsIntegral(num) ==
  num.n \in {"PosInt", "NegInt"} \/ \A i \in 1..Len(num.f.frac) : num.f.frac[i] = 0

IntegerOf(num) ==
  IF num.n = "Float" THEN AsI64(num.f.int)
  ELSE [neg |-> num.n = "NegInt", mag |-> num.mag]

\* The integer [neg, mag] is in the range of i64, of u64.
InI64(i) == FitsI64(i.mag) \/ (i.neg /\ i.mag = I64MaxPlus1)

InU64(i) == ~i.neg \/ IsZero(i.mag)

Converted == value # NoValue /\ conv # NoConv

\* C5, as claimed: a number exactly representable as an i64 converts to Int
\* of that value; otherwise one exactly representable as a u64 converts to
\* UInt of that value; any other number converts to Double.
C5_ByRepresentability ==
  (Converted /\ value.kind = "Number") =>
    /\ conv.ok
    /\ IF IsIntegral(value.val) /\ InI64(IntegerOf(value.val))
       THEN conv.expr = ExprInt(IntegerOf(value.val))
       ELSE IF IsIntegral(value.val) /\ InU64(IntegerOf(value.val))
       THEN conv.expr = ExprUInt(IntegerOf(value.val).mag)
       ELSE conv.expr.kind = "Double"

\* C5, amended: a Number that serde_json holds as an integer converts to
\* Int of its value when that is in the i64 range and to UInt of its value
\* otherwise; a Number held as a float converts to Double of its value,
\* also when that value is an integer (1.0).
C5_ByNumberForm ==
  (Converted /\ value.kind = "Number") =>
    /\ conv.ok
    /\ IF value.val.n = "Float"
       THEN conv.expr = ExprDouble(value.val.f)
       ELSE IF InI64(IntegerOf(value.val))
       THEN conv.expr = ExprInt(IntegerOf(value.val))
       ELSE conv.expr = ExprUInt(IntegerOf(value.val).mag)

\* The smallest integer above the i64 range became a UInt.
C5_Witness ==
  /\ Converted
  /\ value = ValueNumber(PosInt(I64MaxPlus1))
  /\ conv = Returned(ExprUInt(I64MaxPlus1))

\* C6: the conversion is total on null, booleans, numbers and strings and
\* yields the matching variant; on every array and object, empty ones too,
\* it aborts, yielding neither an Expr nor an error value.
C6_CompositeAborts ==
  Converted =>
    CASE value.kind = "Null" -> conv = Returned(ExprNull)
      [] value.kind = "Bool" -> conv = Returned(ExprBoolean(value.val))
      [] value.kind = "String" -> conv = Returned(ExprString(value.val))
      [] value.kind = "Number" ->
           conv.ok /\ conv.expr.kind \in {"Int", "UInt", "Double"}
      [] value.kind \in {"Array", "Object"} ->
           conv = Panicked /\ expr = NoExpr /\ ~ENABLED Arrive

\* The conversion of an empty array aborted.
C6_Witness ==
  /\ value = ValueArray(<< >>)
  /\ conv = Panicked

\* C7: an Array of n elements encodes to a plain JSON array of exactly n
\* elements, the i-th being the encoding of the i-th element.
C7_ArrayElements ==
  (Encoded /\ res.input.kind = "Array") =>
    LET p == ParseJson(res.out)
        ary == res.input.val
    IN  /\ p.ok
        /\ p.v.j = "arr"
        /\ Len(p.v.v) = Len(ary)
        /\ \A i \in 1..Len(ary) : ParseJson(Encoding(ary[i])) = Json(p.v.v[i])

\* C8: a Set built by Set::matching(r, t) encodes to a JSON object with the
\* single key "@set", whose value is a JSON object with exactly the keys
\* "match", the encoding of r as a Ref, and "terms", the encoding of t.
C8_SetShape ==
  (Encoded /\ res.input.kind = "Set") =>
    LET p == ParseJson(res.out)
        set == res.input.val
        terms == ParseJson(Encoding(set.terms))
    IN  /\ p.ok
        /\ terms.ok
        /\ set.matching.kind = "Ref"
        /\ p.v = JObj(<<Member("@set",
                   JObj(<<Member("match",
                            JObj(<<Member("@ref",
                                     JScalar(Str(RefPath(set.matching.val))))>>)),
                          Member("terms", terms.v)>>))>>)

\* The names of a Ref's chain, outermost parent first.
RECURSIVE Chain(_)
Chain(r) ==
  IF r.class = << >> THEN <<r.id>> ELSE Append(Chain(r.class[1]), r.id)

RECURSIVE Join(_, _)
Join(names, sep) ==
  IF Len(names) = 1 THEN names[1]
  ELSE Join(SubSeq(names, 1, Len(names) - 1), sep) \o sep \o names[Len(names)]

\* C9: a Ref encodes to a JSON object with the single key "@ref" whose value
\* is the names of its chain joined with "/", outermost parent first;
\* Ref::new("foo", Ref::class("test")) encodes to {"@ref":"classes/test/foo"}
\* and Ref::index("cats_age") has the path "indexes/cats_age".
C9_RefPath ==
  /\ (Encoded /\ res.input.kind = "Ref") =>
       /\ Tokenize(res.out) = <<Punct("{"), Str("@ref"), Punct(":"),
                      Str(Join(Chain(res.input.val), "/")), Punct("}")>>
       /\ res.input.val = RefNew("foo", RefClass("test")) =>
            Render(res.out) = "{\"@ref\":\"classes/test/foo\"}"
       /\ res.input.val = RefIndex("cats_age") =>
            Render(res.out) = "{\"@ref\":\"indexes/cats_age\"}"
  /\ RefPath(RefIndex("cats_age")) = "indexes/cats_age"

\* A document Ref under a class has been encoded.
C9_Witness ==
  /\ Encoded
  /\ res.input = FromRef(RefNew("foo", RefClass("test")))
  /\ Len(Tokenize(res.out)) = 5

ExprArms ==
  {"Expr::Object", "Expr::Bytes", "Expr::Date", "Expr::Ref", "Expr::Set",
   "Expr::Timestamp"}

\* C10: every map Expr::serialize opens is declared with the number of
\* entries then written into it, which is one.
C10_DeclaredLength ==
  res # NoRes =>
    \A i \in 1..Len(res.maps) :
      res.maps[i].by \in ExprArms =>
        res.maps[i].declared = res.maps[i].written /\ res.maps[i].written = 1

====
